---- MODULE Spec2Model ----
(***************************************************************************)
(* kwo: keyword-only arguments through a decorator (kwo/__init__.py).      *)
(*                                                                         *)
(* A function definition is its argspec (inspect.getargspec): the names,   *)
(* the right-aligned tuple of default values, the native *varargs name and *)
(* the native **keywords name.  with_kwonly walks the argspec, validates   *)
(* it, and synthesises a wrapper from generated source text; a call of the *)
(* wrapper binds its arguments natively, extracts the keyword-only values  *)
(* from the keyword bag and forwards everything to the original function.  *)
(*                                                                         *)
(* Python values are sequences of strings that begin with a tag, so any    *)
(* two values can be compared.  Source text is a sequence of tokens.       *)
(***************************************************************************)
EXTENDS Naturals, Sequences, FiniteSets, TLC

VARIABLES
    pc,               \* "defined" | "decorated" | "failed" | "called"
    argspec,          \* the argspec of the function handed to with_kwonly
    result,           \* what with_kwonly produced
    kwonly_defaults,  \* the list the wrapper's extract_kwonlies closes over
    call,             \* the arguments of the latest call of the wrapper
    outcome,          \* how the latest call ended
    threads           \* calls in flight, one record per thread

vars == <<pc, argspec, result, kwonly_defaults, call, outcome, threads>>

-----------------------------------------------------------------------------
(* Bounds of the model *)

MaxArgs == 4      \* declared parameters per function
MaxPos == 3       \* positional arguments per call

-----------------------------------------------------------------------------
(* Python values *)

None == "None"

no_default == <<"no_default">>

vararg == <<"vararg">>

kwonly(default) == <<"kwonly">> \o default

IsKwonly(value) == value[1] = "kwonly"

KwonlyDefault(value) == Tail(value)

Val(x) == <<"val", x>>

RECURSIVE Flatten(_)
Flatten(vs) == IF vs = <<>> THEN <<>> ELSE Head(vs) \o Flatten(Tail(vs))

TupleVal(items) == <<"tuple">> \o Flatten(items)

repr(name) == "'" \o name \o "'"

-----------------------------------------------------------------------------
(* Sequence and text helpers used by with_kwonly *)

Reverse(s) == [i \in 1..Len(s) |-> s[Len(s) + 1 - i]]

zip_longest(xs, ys, fillvalue) ==
    LET n == IF Len(xs) >= Len(ys) THEN Len(xs) ELSE Len(ys)
    IN  [i \in 1..n |->
            [name  |-> IF i <= Len(xs) THEN xs[i] ELSE fillvalue,
             value |-> IF i <= Len(ys) THEN ys[i] ELSE fillvalue]]

RECURSIVE Join(_, _)
Join(sep, parts) ==
    IF parts = <<>> THEN <<>>
    ELSE IF Len(parts) = 1 THEN parts[1]
    ELSE parts[1] \o sep \o Join(sep, Tail(parts))

RECURSIVE JoinStr(_, _)
JoinStr(sep, parts) ==
    IF parts = <<>> THEN ""
    ELSE IF Len(parts) = 1 THEN parts[1]
    ELSE parts[1] \o sep \o JoinStr(sep, Tail(parts))

Words(names) == [i \in 1..Len(names) |-> <<names[i]>>]

Reprs(names) == [i \in 1..Len(names) |-> repr(names[i])]

Contains(s, x) == \E i \in 1..Len(s) : s[i] = x

private_namespace(name) == "_uuid4hex_" \o name

-----------------------------------------------------------------------------
(* with_kwonly: the classification and validation walk *)

fname == "f"

defaults(spec) ==
    Reverse(zip_longest(Reverse(spec.args), Reverse(spec.defaults), no_default))

\* with_kwonly forgetting that the function has a native *args
WalkInitNoNative(spec) ==
    [found_kwonly    |-> None,
     found_vararg    |-> None,
     real_vararg     |-> FALSE,
     kwonly_defaults |-> <<>>,
     error           |-> ""]

WalkInit(spec) ==
    [found_kwonly    |-> None,
     found_vararg    |-> spec.varargs,
     real_vararg     |-> spec.varargs # None,
     kwonly_defaults |-> <<>>,
     error           |-> ""]

\* the walk with its last two branches in the other order
WalkStepKeywordFirst(st, name, value) ==
    IF IsKwonly(value) THEN
        [st EXCEPT !.found_kwonly = name,
                   !.kwonly_defaults =
                       Append(@, [name |-> name, default |-> KwonlyDefault(value)])]
    ELSE IF value = vararg THEN
        IF st.found_vararg # None
        THEN [st EXCEPT !.error = "duplicate 'vararg' arguments"]
        ELSE [st EXCEPT !.found_vararg = name, !.real_vararg = FALSE]
    ELSE IF st.found_kwonly # None THEN
        [st EXCEPT !.error = "non keyword only argument " \o repr(name)
                             \o " follows keyword argument " \o repr(st.found_kwonly)]
    ELSE IF st.found_vararg # None /\ ~st.real_vararg THEN
        [st EXCEPT !.error = "non keyword only argument " \o repr(name)
                             \o " follows vararg " \o repr(st.found_vararg)]
    ELSE st

WalkStep(st, name, value) ==
    IF IsKwonly(value) THEN
        [st EXCEPT !.found_kwonly = name,
                   !.kwonly_defaults =
                       Append(@, [name |-> name, default |-> KwonlyDefault(value)])]
    ELSE IF value = vararg THEN
        IF st.found_vararg # None
        THEN [st EXCEPT !.error = "duplicate 'vararg' arguments"]
        ELSE [st EXCEPT !.found_vararg = name, !.real_vararg = FALSE]
    ELSE IF st.found_vararg # None /\ ~st.real_vararg THEN
        [st EXCEPT !.error = "non keyword only argument " \o repr(name)
                             \o " follows vararg " \o repr(st.found_vararg)]
    ELSE IF st.found_kwonly # None THEN
        [st EXCEPT !.error = "non keyword only argument " \o repr(name)
                             \o " follows keyword argument " \o repr(st.found_kwonly)]
    ELSE st

RECURSIVE WalkFrom(_, _, _)
WalkFrom(ds, i, st) ==
    IF i > Len(ds) \/ st.error # "" THEN st
    ELSE WalkFrom(ds, i + 1, WalkStep(st, ds[i].name, ds[i].value))

Walk(spec) == WalkFrom(defaults(spec), 1, WalkInit(spec))

\* the fast path taken whenever there is no keyword-only parameter
FastPathKwonlyOnly(spec, st) == st.found_kwonly = None

FastPath(spec, st) == st.found_kwonly = None /\ st.found_vararg = spec.varargs

-----------------------------------------------------------------------------
(* with_kwonly: the generated source text, as token sequences *)

kwonly_names(st) == [i \in 1..Len(st.kwonly_defaults) |-> st.kwonly_defaults[i].name]

PlainArgs(spec, st) ==
    SelectSeq(spec.args,
              LAMBDA arg : ~Contains(kwonly_names(st), arg) /\ arg # st.found_vararg)

kwargname(spec) ==
    IF spec.keywords # None THEN spec.keywords ELSE private_namespace("kwargs")

\* a wrapper that always declares a positional capture
wrapper_argspec_str_capture(spec, st) ==
    Join(<<", ">>, Words(PlainArgs(spec, st)))
    \o <<", ", "*",
         IF st.found_vararg # None THEN st.found_vararg ELSE private_namespace("args")>>
    \o <<", ", "**", kwargname(spec)>>

wrapper_argspec_str(spec, st) ==
    Join(<<", ">>, Words(PlainArgs(spec, st)))
    \o (IF st.found_vararg # None THEN <<", ", "*", st.found_vararg>> ELSE <<>>)
    \o <<", ", "**", kwargname(spec)>>

call_sig_str(spec, st) ==
    Join(<<", ">>, Words(PlainArgs(spec, st)))
    \o (IF st.found_vararg # None THEN <<", ", st.found_vararg>> ELSE <<>>)
    \o <<", ">> \o Join(<<", ">>, [i \in 1..Len(kwonly_names(st)) |->
                                   <<kwonly_names(st)[i], "=", kwonly_names(st)[i]>>])
    \o <<", ", "**", kwargname(spec)>>

assign_kwonlies(spec, st) ==
    IF st.kwonly_defaults # <<>>
    THEN Join(<<", ">>, Words(kwonly_names(st)))
         \o <<", ", "=", private_namespace("extract_kwonlies"), "(", kwargname(spec), ")">>
    ELSE <<>>

source_code(spec, st) ==
    [wrapper_argspec |-> wrapper_argspec_str(spec, st),
     assign_kwonlies |-> assign_kwonlies(spec, st),
     call_sig        |-> call_sig_str(spec, st)]

-----------------------------------------------------------------------------
(* compile(): the generated text parsed back into a function *)

RECURSIVE Split(_)
Split(tokens) ==
    IF tokens = <<>> THEN << <<>> >>
    ELSE LET rest == Split(Tail(tokens))
         IN  IF Head(tokens) = ", "
             THEN << <<>> >> \o rest
             ELSE << <<Head(tokens)>> \o rest[1] >> \o Tail(rest)

ListOk(tokens) ==
    tokens = <<>> \/ \A i \in 1..Len(Split(tokens)) : Split(tokens)[i] # <<>>

EntryKind(entry) ==
    IF entry[1] = "**" THEN "starstar"
    ELSE IF entry[1] = "*" THEN "star"
    ELSE IF Len(entry) = 3 THEN "keyword"
    ELSE "positional"

EntryName(entry) == entry[Len(entry)]

EntryNames(entries) == [i \in 1..Len(entries) |-> EntryName(entries[i])]

OfKind(tokens, kind) ==
    EntryNames(SelectSeq(Split(tokens), LAMBDA e : EntryKind(e) = kind))

FirstOr(s, dflt) == IF s = <<>> THEN dflt ELSE s[1]

AssignTargets(tokens) ==
    IF tokens = <<>> THEN <<>>
    ELSE EntryNames(SelectSeq(Split(tokens), LAMBDA e : e # <<>> /\ e[1] # "="))

NoCode ==
    [args |-> <<>>, varargs |-> None, keywords |-> None,
     targets |-> <<>>, call |-> <<>>]

CompileOk(src) == ListOk(src.wrapper_argspec) /\ ListOk(src.call_sig)

compile(src) ==
    [args     |-> OfKind(src.wrapper_argspec, "positional"),
     varargs  |-> FirstOr(OfKind(src.wrapper_argspec, "star"), None),
     keywords |-> FirstOr(OfKind(src.wrapper_argspec, "starstar"), None),
     targets  |-> AssignTargets(src.assign_kwonlies),
     call     |-> [i \in 1..Len(Split(src.call_sig)) |->
                      [kind |-> EntryKind(Split(src.call_sig)[i]),
                       name |-> EntryName(Split(src.call_sig)[i])]]]

with_kwonly(spec) ==
    LET st == Walk(spec) IN
    IF st.error # "" THEN
        [kind |-> "SyntaxError", msg |-> st.error, code |-> NoCode,
         kwonly_defaults |-> <<>>]
    ELSE IF FastPath(spec, st) THEN
        [kind |-> "original", msg |-> "", code |-> NoCode, kwonly_defaults |-> <<>>]
    ELSE IF ~CompileOk(source_code(spec, st)) THEN
        [kind |-> "SyntaxError", msg |-> "invalid syntax", code |-> NoCode,
         kwonly_defaults |-> <<>>]
    ELSE
        [kind |-> "wrapper", msg |-> "", code |-> compile(source_code(spec, st)),
         kwonly_defaults |-> st.kwonly_defaults]

-----------------------------------------------------------------------------
(* Python's native argument binding.  Every failure is a TypeError; err    *)
(* records which rule failed.                                              *)

ToSet(s) == {s[i] : i \in 1..Len(s)}

Min(a, b) == IF a <= b THEN a ELSE b

EmptyMap == [k \in {} |-> no_default]

Without(m, keys) == [k \in (DOMAIN m) \ keys |-> m[k]]

HasDefault(sig, i) == i > Len(sig.args) - Len(sig.defaults)

DefaultOf(sig, i) == sig.defaults[i - (Len(sig.args) - Len(sig.defaults))]

BindError(sig, pos, kw) ==
    IF sig.keywords = None /\ (DOMAIN kw) \ ToSet(sig.args) # {}
        THEN "unexpected_keyword"
    ELSE IF \E i \in 1..Min(Len(pos), Len(sig.args)) : sig.args[i] \in DOMAIN kw
        THEN "multiple_values"
    ELSE IF sig.varargs = None /\ Len(pos) > Len(sig.args)
        THEN "too_many_positional"
    ELSE IF \E i \in 1..Len(sig.args) :
                i > Len(pos) /\ sig.args[i] \notin DOMAIN kw /\ ~HasDefault(sig, i)
        THEN "missing_argument"
    ELSE ""

Bind(sig, pos, kw) ==
    IF BindError(sig, pos, kw) # ""
    THEN [error |-> BindError(sig, pos, kw), named |-> EmptyMap, star |-> <<>>,
          bag |-> EmptyMap]
    ELSE [error |-> "",
          named |-> [name \in ToSet(sig.args) |->
                        LET i == CHOOSE j \in 1..Len(sig.args) : sig.args[j] = name
                        IN  IF i <= Len(pos) THEN pos[i]
                            ELSE IF name \in DOMAIN kw THEN kw[name]
                            ELSE DefaultOf(sig, i)],
          star  |-> IF sig.varargs = None THEN <<>>
                    ELSE SubSeq(pos, Len(sig.args) + 1, Len(pos)),
          bag   |-> Without(kw, ToSet(sig.args))]

-----------------------------------------------------------------------------
(* extract_kwonlies: the per-call step of the wrapper *)

IntStr(n) == <<"0", "1", "2", "3", "4", "5", "6", "7", "8", "9">>[n + 1]

\* extract_kwonlies with a missing_kwonlies list that outlives the call
ExtractInitShared(kwargs) ==
    [kwargs |-> kwargs, ret |-> <<>>,
     missing_kwonlies |->
        IF \E t \in DOMAIN threads : threads[t].acc.missing_kwonlies # <<>>
        THEN threads[CHOOSE t \in DOMAIN threads :
                         threads[t].acc.missing_kwonlies # <<>>].acc.missing_kwonlies
        ELSE <<>>]

ExtractInit(kwargs) == [kwargs |-> kwargs, ret |-> <<>>, missing_kwonlies |-> <<>>]

\* kwargs.pop(name) without the declared default
ExtractStepNoDefault(acc, kd) ==
    LET value == IF kd.name \in DOMAIN acc.kwargs THEN acc.kwargs[kd.name]
                 ELSE no_default
    IN  [kwargs           |-> Without(acc.kwargs, {kd.name}),
         ret              |-> IF value = no_default THEN acc.ret
                              ELSE Append(acc.ret, value),
         missing_kwonlies |-> IF value = no_default
                              THEN Append(acc.missing_kwonlies, kd.name)
                              ELSE acc.missing_kwonlies]

ExtractStep(acc, kd) ==
    LET value == IF kd.name \in DOMAIN acc.kwargs THEN acc.kwargs[kd.name]
                 ELSE kd.default
    IN  [kwargs           |-> Without(acc.kwargs, {kd.name}),
         ret              |-> IF value = no_default THEN acc.ret
                              ELSE Append(acc.ret, value),
         missing_kwonlies |-> IF value = no_default
                              THEN Append(acc.missing_kwonlies, kd.name)
                              ELSE acc.missing_kwonlies]

RECURSIVE ExtractFrom(_, _, _)
ExtractFrom(kds, i, acc) ==
    IF i > Len(kds) THEN acc ELSE ExtractFrom(kds, i + 1, ExtractStep(acc, kds[i]))

MissingArgs(missing) ==
    IF Len(missing) = 1 THEN repr(missing[1])
    ELSE IF Len(missing) = 2 THEN repr(missing[1]) \o " and " \o repr(missing[2])
    ELSE JoinStr(", and ",
                 <<JoinStr(", ", Reprs(SubSeq(missing, 1, Len(missing) - 1))),
                   repr(missing[Len(missing)])>>)

MissingMessage(missing) ==
    fname \o "() missing " \o IntStr(Len(missing))
          \o " required keyword-only argument"
          \o (IF Len(missing) = 1 THEN "" ELSE "s") \o ": " \o MissingArgs(missing)

-----------------------------------------------------------------------------
(* A call of the synthesised wrapper *)

NoOutcome ==
    [kind |-> "none", stage |-> "", err |-> "", msg |-> "",
     named |-> EmptyMap, star |-> <<>>, bag |-> EmptyMap]

Raise(kind, stage, err, msg) ==
    [kind |-> kind, stage |-> stage, err |-> err, msg |-> msg,
     named |-> EmptyMap, star |-> <<>>, bag |-> EmptyMap]

WrapperSig(code) ==
    [args |-> code.args, defaults |-> <<>>, varargs |-> code.varargs,
     keywords |-> code.keywords]

Enter(code, pos, kw) == Bind(WrapperSig(code), pos, kw)

IndexOf(s, x) == CHOOSE i \in 1..Len(s) : s[i] = x

Local(code, b, acc, name) ==
    IF Contains(code.targets, name) THEN acc.ret[IndexOf(code.targets, name)]
    ELSE IF name = code.varargs THEN TupleVal(b.star)
    ELSE b.named[name]

LocalNames(code) ==
    ToSet(code.args) \cup {code.varargs, code.keywords} \cup ToSet(code.targets)

\* return f({call_sig}): the name f is looked up among the locals of the
\* generated function before the namespace that holds the original function
Forward(code, spec, b, acc) ==
    LET posEntries == SelectSeq(code.call, LAMBDA e : e.kind = "positional")
        kwEntries  == SelectSeq(code.call, LAMBDA e : e.kind = "keyword")
        pos2       == [i \in 1..Len(posEntries) |-> Local(code, b, acc, posEntries[i].name)]
        kwNames    == {kwEntries[i].name : i \in 1..Len(kwEntries)}
        kw2        == [k \in kwNames \cup DOMAIN acc.kwargs |->
                          IF k \in kwNames THEN Local(code, b, acc, k)
                          ELSE acc.kwargs[k]]
        b2         == Bind(spec, pos2, kw2)
    IN  IF "f" \in LocalNames(code)
            THEN Raise("TypeError", "forward", "not_callable", "")
        ELSE IF kwNames \cap DOMAIN acc.kwargs # {}
            THEN Raise("TypeError", "forward", "multiple_values", "")
        ELSE IF b2.error # ""
            THEN Raise("TypeError", "forward", b2.error, "")
        ELSE [kind |-> "return", stage |-> "body", err |-> "", msg |-> "",
              named |-> b2.named, star |-> b2.star, bag |-> b2.bag]

Finish(code, spec, b, acc) ==
    IF acc.missing_kwonlies # <<>> THEN
        Raise("TypeError", "extract", "missing_kwonly",
              MissingMessage(acc.missing_kwonlies))
    ELSE IF code.targets # <<>> /\ Len(acc.ret) # Len(code.targets) THEN
        Raise("ValueError", "extract", "unpack", "")
    ELSE Forward(code, spec, b, acc)

CallWrapper(code, kds, spec, pos, kw) ==
    LET b   == Enter(code, pos, kw)
        acc == IF code.targets # <<>>
               THEN ExtractFrom(kds, 1, ExtractInit(b.bag))
               ELSE ExtractInit(b.bag)
    IN  IF b.error # "" THEN Raise("TypeError", "wrapper", b.error, "")
        ELSE Finish(code, spec, b, acc)

-----------------------------------------------------------------------------
(* The functions that can be defined and the calls that can be made *)

Names == <<"a", "b", "c", "d", "e">>

PosIds == <<"p1", "p2", "p3", "p4", "p5", "p6">>

DefaultVals == {Val("dflt"), kwonly(no_default), kwonly(Val("kwd")), vararg}

ArgSpecs ==
    UNION {
        UNION {
            {[args |-> SubSeq(Names, 1, n), defaults |-> ds, varargs |-> va,
              keywords |-> kws] :
                 ds \in [1..m -> DefaultVals], va \in {None, "args"},
                 kws \in {None, "kwargs"}} : m \in 0..n} : n \in 0..MaxArgs}

PosArgs(n) == [i \in 1..n |-> Val(PosIds[i])]

Given(k) == Val("=" \o k)

Keys(spec) == ToSet(spec.args) \cup {"z"}

KwonlyKeys(spec) ==
    {defaults(spec)[i].name : i \in {j \in 1..Len(spec.args) : IsKwonly(defaults(spec)[j].value)}}

KwArgs(S, N) == [k \in S |-> IF k \in N THEN no_default ELSE Given(k)]

NoCall == [pos |-> <<>>, kw |-> EmptyMap]

-----------------------------------------------------------------------------
(* The state machine: define, decorate, call *)

Init ==
    /\ pc = "defined"
    /\ argspec \in ArgSpecs
    /\ result = [kind |-> "none", msg |-> "", code |-> NoCode, kwonly_defaults |-> <<>>]
    /\ kwonly_defaults = <<>>
    /\ call = NoCall
    /\ outcome = NoOutcome
    /\ threads = <<>>

Decorate ==
    /\ pc = "defined"
    /\ result' = with_kwonly(argspec)
    /\ kwonly_defaults' = result'.kwonly_defaults
    /\ pc' = IF result'.kind = "SyntaxError" THEN "failed" ELSE "decorated"
    /\ UNCHANGED <<argspec, call, outcome, threads>>

Call(pos, kw) ==
    /\ pc = "decorated"
    /\ result.kind = "wrapper"
    /\ call' = [pos |-> pos, kw |-> kw]
    /\ outcome' = CallWrapper(result.code, kwonly_defaults, argspec, pos, kw)
    /\ pc' = "called"
    /\ UNCHANGED <<argspec, result, kwonly_defaults, threads>>

CallWrapperOnce ==
    /\ pc = "decorated"
    /\ \E n \in 0..MaxPos, S \in SUBSET Keys(argspec) :
           \E N \in SUBSET (S \cap KwonlyKeys(argspec)) : Call(PosArgs(n), KwArgs(S, N))

Next ==
    \/ Decorate
    \/ CallWrapperOnce

Spec == Init /\ [][Next]_vars

-----------------------------------------------------------------------------
(* The declared signature, read off the argspec the way Python pairs       *)
(* parameters with their defaults.  The properties below are stated with   *)
(* these, not with the walk of with_kwonly.                                *)

NArgs == Len(argspec.args)

Declared(i) == IF HasDefault(argspec, i) THEN DefaultOf(argspec, i) ELSE no_default

IsKw(i) == HasDefault(argspec, i) /\ Declared(i)[1] = "kwonly"

IsMarker(i) == HasDefault(argspec, i) /\ Declared(i) = vararg

IsPlain(i) == ~IsKw(i) /\ ~IsMarker(i)

KwIdx == {i \in 1..NArgs : IsKw(i)}

MarkerIdx == {i \in 1..NArgs : IsMarker(i)}

PlainIdx == {i \in 1..NArgs : IsPlain(i)}

Native == argspec.varargs # None

\* plain parameters that follow a keyword-only parameter or a marker parameter
Offending == {i \in PlainIdx : \E j \in KwIdx \cup MarkerIdx : j < i}

\* marker parameters that duplicate a capture: any marker beside a native
\* *args, and every marker after the first
Duplicating == {i \in MarkerIdx : Native \/ \E j \in MarkerIdx : j < i}

Least(S) == CHOOSE i \in S : \A j \in S : i <= j

Greatest(S) == CHOOSE i \in S : \A j \in S : j <= i

Decorated == pc # "defined"

-----------------------------------------------------------------------------
(* C8: a function with no keyword-only parameter and no marker parameter,  *)
(* with or without a native *args, is returned as the very same object;    *)
(* a function with a keyword-only or a marker parameter never is.          *)
C8_FastPath ==
    Decorated =>
        /\ (KwIdx = {} /\ MarkerIdx = {} => result.kind = "original")
        /\ (KwIdx # {} \/ MarkerIdx # {} => result.kind # "original")

C8_Witness ==
    /\ Decorated /\ result.kind = "original"
    /\ Native /\ NArgs >= 2 /\ Len(argspec.defaults) >= 1

-----------------------------------------------------------------------------
(* C10: every declaration that breaks none of the three validator rules    *)
(* and is not returned by the fast path is synthesised into a callable.    *)
C10_SynthesisCompletes ==
    Decorated /\ Offending = {} /\ Duplicating = {} /\ (KwIdx # {} \/ MarkerIdx # {})
        => result.kind = "wrapper"

-----------------------------------------------------------------------------
(* C4 as stated: a plain parameter after a keyword-only or marker          *)
(* parameter is a SyntaxError naming the first such parameter p; the       *)
(* message says "follows vararg" when a marker precedes p and otherwise    *)
(* names the nearest keyword-only parameter before p.                      *)
C4_Expected ==
    LET p == Least(Offending)
        before == {j \in MarkerIdx : j < p}
    IN  IF before # {}
        THEN "non keyword only argument '" \o argspec.args[p] \o "' follows vararg '"
             \o argspec.args[Least(before)] \o "'"
        ELSE "non keyword only argument '" \o argspec.args[p]
             \o "' follows keyword argument '"
             \o argspec.args[Greatest({j \in KwIdx : j < p})] \o "'"

C4_PlainAfterStated ==
    Decorated /\ Offending # {} =>
        /\ pc = "failed"
        /\ result.kind = "SyntaxError"
        /\ result.msg = C4_Expected

(* C4 amended: as above, unless a duplicating marker precedes p; the       *)
(* SyntaxError then is the duplicate-vararg one.                           *)
C4_PlainAfter ==
    Decorated /\ Offending # {} =>
        /\ pc = "failed"
        /\ result.kind = "SyntaxError"
        /\ result.msg =
              IF \E d \in Duplicating : d < Least(Offending)
              THEN "duplicate 'vararg' arguments"
              ELSE C4_Expected

C4_Witness ==
    /\ pc = "failed" /\ Offending # {}
    /\ \E k \in KwIdx, m \in MarkerIdx : k < m /\ m < Least(Offending)
    /\ result.msg = C4_Expected

-----------------------------------------------------------------------------
(* C5 as stated: the duplicate-vararg SyntaxError is raised exactly when   *)
(* a second parameter carries the marker or a parameter carries it beside  *)
(* a native *args.                                                         *)
C5_DuplicateStated ==
    Decorated =>
        ((result.kind = "SyntaxError" /\ result.msg = "duplicate 'vararg' arguments")
            <=> Duplicating # {})

(* C5 amended: ... unless a plain parameter that follows a keyword-only or *)
(* marker parameter comes before the duplicating marker; the SyntaxError   *)
(* then is that parameter's.                                               *)
C5_Duplicate ==
    Decorated =>
        ((result.kind = "SyntaxError" /\ result.msg = "duplicate 'vararg' arguments")
            <=> /\ Duplicating # {}
                /\ \A p \in Offending : Least(Duplicating) < p)

C5_Witness ==
    /\ pc = "failed" /\ result.msg = "duplicate 'vararg' arguments"
    /\ Native /\ Cardinality(MarkerIdx) = 1 /\ KwIdx # {}

-----------------------------------------------------------------------------
(* The call, read against the declared signature *)

Called == pc = "called"

Name(i) == argspec.args[i]

Capture == Native \/ MarkerIdx # {}

NumPlain == Cardinality(PlainIdx)

\* the position of plain parameter i among the plain parameters
Rank(i) == Cardinality({j \in PlainIdx : j <= i})

Extras == SubSeq(call.pos, NumPlain + 1, Len(call.pos))

KwDefault(i) == Tail(Declared(i))

Required == {i \in KwIdx : KwDefault(i) = no_default}

NamesOf(S) == SelectSeq(argspec.args, LAMBDA a : \E i \in S : Name(i) = a)

RaisedMissing == outcome.kind = "TypeError" /\ outcome.err = "missing_kwonly"

Invoked == outcome.stage = "body"

RECURSIVE AndList(_)
AndList(names) ==
    IF Len(names) = 1 THEN "and '" \o names[1] \o "'"
    ELSE "'" \o names[1] \o "', " \o AndList(Tail(names))

MissingText(names) ==
    fname \o "() missing "
    \o (IF Len(names) = 1 THEN "1 required keyword-only argument: '" \o names[1] \o "'"
        ELSE IF Len(names) = 2
            THEN "2 required keyword-only arguments: '" \o names[1] \o "' and '"
                 \o names[2] \o "'"
        ELSE IntStr(Len(names)) \o " required keyword-only arguments: " \o AndList(names))

\* the call gives every plain parameter exactly one value and, without a
\* capture parameter, no positional argument beyond the plain parameters
Binds ==
    /\ Capture \/ Len(call.pos) <= NumPlain
    /\ \A i \in PlainIdx : (Rank(i) <= Len(call.pos)) # (Name(i) \in DOMAIN call.kw)

-----------------------------------------------------------------------------
(* C1: with a keyword-only parameter and no capture parameter, a call with *)
(* more positional arguments than plain parameters ends in a TypeError     *)
(* without the original function running, and no keyword-only parameter    *)
(* ever holds a positionally supplied value.                               *)
C1_KeywordOnly ==
    Called /\ KwIdx # {} /\ ~Capture =>
        /\ Len(call.pos) > NumPlain => outcome.kind = "TypeError" /\ ~Invoked
        /\ Invoked => \A i \in KwIdx : \A j \in 1..Len(call.pos) :
                          outcome.named[Name(i)] # call.pos[j]

C1_Witness ==
    /\ Called /\ KwIdx # {} /\ ~Capture
    /\ Len(call.pos) > NumPlain
    /\ \A i \in KwIdx : Name(i) \in DOMAIN call.kw /\ call.kw[Name(i)] # no_default
    /\ outcome.kind = "TypeError" /\ ~Invoked

-----------------------------------------------------------------------------
(* C2 as stated: the missing-keyword-only TypeError is raised exactly when *)
(* some keyword-only parameter has neither a caller-supplied value nor a   *)
(* declared default, and its message lists exactly those parameters.       *)
C2_Absent == {i \in Required : Name(i) \notin DOMAIN call.kw}

C2_MissingStated ==
    Called =>
        /\ RaisedMissing <=> C2_Absent # {}
        /\ RaisedMissing /\ C2_Absent # {} => outcome.msg = MissingText(NamesOf(C2_Absent))

(* C2 amended: for a call that binds to the wrapper's parameters, the      *)
(* error is raised exactly when some keyword-only parameter is left        *)
(* without a value: the caller passed the no_default sentinel for it, or   *)
(* passed nothing and it has no declared default.  A call that does not    *)
(* bind ends in a TypeError of the interpreter instead.                    *)
C2_Unvalued ==
    {i \in KwIdx : IF Name(i) \in DOMAIN call.kw THEN call.kw[Name(i)] = no_default
                   ELSE KwDefault(i) = no_default}

C2_Missing ==
    Called =>
        /\ Binds => (RaisedMissing <=> C2_Unvalued # {})
        /\ RaisedMissing => outcome.msg = MissingText(NamesOf(C2_Unvalued)) /\ ~Invoked
        /\ ~Binds => outcome.kind = "TypeError" /\ ~RaisedMissing /\ ~Invoked

C2_Witness ==
    /\ Called /\ Binds /\ RaisedMissing
    /\ Cardinality(C2_Unvalued) >= 3
    /\ \E i \in C2_Unvalued : Name(i) \in DOMAIN call.kw

-----------------------------------------------------------------------------
(* Calls in the shape the forwarding properties speak of: keywords carry   *)
(* ordinary values and name no plain and no capture parameter, every       *)
(* keyword-only parameter without a default is given by name, and a        *)
(* keyword that names no parameter is only passed when the function        *)
(* declares a keyword bag.                                                 *)
WellFormedKeywords ==
    /\ \A k \in DOMAIN call.kw : call.kw[k] # no_default
    /\ \A i \in PlainIdx \cup MarkerIdx : Name(i) \notin DOMAIN call.kw
    /\ \A i \in Required : Name(i) \in DOMAIN call.kw
    /\ argspec.keywords = None => DOMAIN call.kw \subseteq ToSet(argspec.args)

KwValue(i) == IF Name(i) \in DOMAIN call.kw THEN call.kw[Name(i)] ELSE KwDefault(i)

OwnValues ==
    /\ \A i \in PlainIdx : Rank(i) <= Len(call.pos) =>
           outcome.named[Name(i)] = call.pos[Rank(i)]
    /\ \A i \in KwIdx : outcome.named[Name(i)] = KwValue(i)

-----------------------------------------------------------------------------
(* C3: round trip.  A call that gives every plain parameter positionally   *)
(* and every required keyword-only parameter by name returns what the      *)
(* original returns for the plain values, the keyword-only values          *)
(* (caller's, else the declared default) and the remaining keywords in     *)
(* the bag.                                                                *)
C3_RoundTrip ==
    /\ Called /\ WellFormedKeywords
    /\ Len(call.pos) >= NumPlain
    /\ Capture \/ Len(call.pos) = NumPlain
    => /\ outcome.kind = "return"
       /\ OwnValues
       /\ outcome.bag = [k \in (DOMAIN call.kw) \ ToSet(argspec.args) |-> call.kw[k]]

-----------------------------------------------------------------------------
(* C6: with a capture parameter, marker or native *args, the positional    *)
(* arguments beyond the plain parameters reach the original's capture      *)
(* parameter complete and in order, and every other parameter receives     *)
(* its own value.                                                          *)
C6_Capture ==
    /\ Called /\ WellFormedKeywords /\ Capture
    /\ Len(call.pos) >= NumPlain
    => /\ outcome.kind = "return"
       /\ OwnValues
       /\ Native => outcome.star = Extras
       /\ \A m \in MarkerIdx : outcome.named[Name(m)] = TupleVal(Extras)

-----------------------------------------------------------------------------
(* C7: a plain parameter with an ordinary default may be omitted; the      *)
(* original then runs with the declared default.                           *)
C7_Omitted == {i \in PlainIdx : Rank(i) > Len(call.pos)}

C7_PlainDefaults ==
    /\ Called /\ WellFormedKeywords
    /\ C7_Omitted # {}
    /\ \A i \in C7_Omitted : HasDefault(argspec, i)
    => /\ outcome.kind = "return"
       /\ OwnValues
       /\ \A i \in C7_Omitted : outcome.named[Name(i)] = Declared(i)

-----------------------------------------------------------------------------
(* Concurrent calls of one decorated function.  Each thread runs the       *)
(* wrapper body one step at a time: binding, one turn of the loop of       *)
(* extract_kwonlies per step, then the missing check and the forwarding    *)
(* call.  The list kwonly_defaults is the one object the calls share.      *)

ConcArgs == 2     \* declared parameters per function
ConcPos == 1      \* positional arguments per call

ThreadIds == {"t1", "t2"}

Idle ==
    [pc |-> "idle", pos |-> <<>>, kw |-> EmptyMap,
     b |-> Bind(WrapperSig(NoCode), <<>>, EmptyMap), i |-> 0,
     acc |-> [kwargs |-> EmptyMap, ret |-> <<>>, missing_kwonlies |-> <<>>],
     outcome |-> NoOutcome]

InitConc ==
    /\ pc = "defined"
    /\ argspec \in {s \in ArgSpecs : Len(s.args) <= ConcArgs}
    /\ result = [kind |-> "none", msg |-> "", code |-> NoCode, kwonly_defaults |-> <<>>]
    /\ kwonly_defaults = <<>>
    /\ call = NoCall
    /\ outcome = NoOutcome
    /\ threads = [t \in ThreadIds |-> Idle]

Begin(t, pos, kw) ==
    /\ pc = "decorated"
    /\ result.kind = "wrapper"
    /\ threads[t].pc = "idle"
    /\ LET b == Enter(result.code, pos, kw) IN
       threads' = [threads EXCEPT ![t] =
           IF b.error # ""
           THEN [@ EXCEPT !.pc = "done", !.pos = pos, !.kw = kw,
                          !.outcome = Raise("TypeError", "wrapper", b.error, "")]
           ELSE [@ EXCEPT !.pc = "extract", !.pos = pos, !.kw = kw, !.b = b,
                          !.i = IF result.code.targets # <<>> THEN 1
                                ELSE Len(kwonly_defaults) + 1,
                          !.acc = ExtractInit(b.bag)]]
    /\ UNCHANGED <<pc, argspec, result, kwonly_defaults, call, outcome>>

Step(t) ==
    /\ threads[t].pc = "extract"
    /\ threads[t].i <= Len(kwonly_defaults)
    /\ threads' = [threads EXCEPT
           ![t].acc = ExtractStep(@, kwonly_defaults[threads[t].i]),
           ![t].i = @ + 1]
    /\ UNCHANGED <<pc, argspec, result, kwonly_defaults, call, outcome>>

End(t) ==
    /\ threads[t].pc = "extract"
    /\ threads[t].i > Len(kwonly_defaults)
    /\ threads' = [threads EXCEPT
           ![t].pc = "done",
           ![t].outcome = Finish(result.code, argspec, threads[t].b, threads[t].acc)]
    /\ UNCHANGED <<pc, argspec, result, kwonly_defaults, call, outcome>>

Return(t) ==
    /\ threads[t].pc = "done"
    /\ threads' = [threads EXCEPT ![t] = Idle]
    /\ UNCHANGED <<pc, argspec, result, kwonly_defaults, call, outcome>>

ConcKeys == KwonlyKeys(argspec) \cup {"z"}

NextConc ==
    \/ Decorate
    \/ \E t \in ThreadIds, n \in 0..ConcPos, S \in SUBSET ConcKeys :
           Begin(t, PosArgs(n), KwArgs(S, {}))
    \/ \E t \in ThreadIds : Step(t)
    \/ \E t \in ThreadIds : End(t)
    \/ \E t \in ThreadIds : Return(t)

SpecConc == InitConc /\ [][NextConc]_vars

-----------------------------------------------------------------------------
(* C9: the wrapper keeps no state between calls.  Under every interleaving *)
(* the recorded (name, default) list stays what decoration recorded, and   *)
(* every finished call ended as the same call does when it is the first    *)
(* and only call of a freshly decorated function.                          *)
C9_Alone(pos, kw) ==
    LET b == Enter(result.code, pos, kw)
        fresh == [kwargs |-> b.bag, ret |-> <<>>, missing_kwonlies |-> <<>>]
    IN  IF b.error # "" THEN Raise("TypeError", "wrapper", b.error, "")
        ELSE Finish(result.code, argspec, b,
                    IF result.code.targets # <<>>
                    THEN ExtractFrom(result.kwonly_defaults, 1, fresh)
                    ELSE fresh)

C9_Stateless ==
    Decorated =>
        /\ kwonly_defaults = result.kwonly_defaults
        /\ \A t \in DOMAIN threads : threads[t].pc = "done" =>
               threads[t].outcome = C9_Alone(threads[t].pos, threads[t].kw)

C9_Witness ==
    /\ \A t \in DOMAIN threads : threads[t].pc = "done"
    /\ \E t, u \in DOMAIN threads :
          /\ threads[t].outcome.err = "missing_kwonly"
          /\ threads[u].outcome.kind = "return"
          /\ "z" \in DOMAIN threads[u].outcome.bag

====
